---- MODULE Spec2Model ----
(***************************************************************************)
(* ExecutedBlock (consensus/consensus-types/src/executed_block.rs): a      *)
(* Block paired with the StateComputeResult of its speculative execution,  *)
(* and the values derived from the pair.                                   *)
(*                                                                         *)
(* An Option<T> is a sequence of at most one element: None is <<>> and     *)
(* Some(x) is <<x>>.  The outcome of a call is either Ok(v), the call      *)
(* returned v, or Panic, the call unwound and returned nothing.            *)
(***************************************************************************)
EXTENDS Integers, Sequences, FiniteSets, TLC

VARIABLES
    block,                 \* ExecutedBlock.block
    state_compute_result,  \* ExecutedBlock.state_compute_result
    new_block,             \* the block passed to ExecutedBlock::new
    new_result,            \* the result passed to ExecutedBlock::new
    ret,                   \* per reader: the last call it made and what it got
    chain,                 \* the ExecutedBlocks of a chain, parent first
    committed,             \* how many blocks of the chain the commit walk has passed
    emitted                \* per committed block: what the commit walk got from it

vars == <<block, state_compute_result, new_block, new_result, ret,
          chain, committed, emitted>>

blockVars == <<block, state_compute_result, new_block, new_result>>

chainVars == <<chain, committed, emitted>>

----------------------------------------------------------------------------
(* Bounds of the model *)

\* longest payload and longest compute_status
MaxTxns == 3

\* longest reconfig_events
MaxEvents == 2

\* longest chain of blocks after the reconfiguration-triggering block
MaxSuffix == 2

----------------------------------------------------------------------------
(* Values *)

None == <<>>

Some(x) == <<x>>

Ok(v) == [outcome |-> "ok", value |-> v]

Panic == [outcome |-> "panic"]

SeqsUpTo(S, n) == UNION {[1..k -> S] : k \in 0..n}

Readers == {"r1", "r2"}

Txns == {"tx1", "tx2"}

\* TransactionStatus: Keep carries how the kept transaction ended
KeepExecuted == [tag |-> "Keep", vm_status |-> "Executed"]

KeepOutOfGas == [tag |-> "Keep", vm_status |-> "OutOfGas"]

Discard == [tag |-> "Discard", vm_status |-> "Aborted"]

Retry == [tag |-> "Retry", vm_status |-> "None"]

TransactionStatus == {KeepExecuted, KeepOutOfGas, Discard, Retry}

Events == {"e1", "e2"}

\* HashValue::zero()
ZeroId == "zero"

----------------------------------------------------------------------------
(* Block and StateComputeResult: what ExecutedBlock reads of them *)

Block_id(b) == b.id

Block_payload(b) == b.payload

\* the parent's certificate; a block that has none cannot give one
Block_quorum_cert(b) ==
    IF b.quorum_cert = None THEN Panic ELSE Ok(b.quorum_cert[1])

certified_block(qc) == qc.certified_block

\* the transactions of the payload, in order; none when there is no payload
transactions_to_execute(b) ==
    IF b.payload = None THEN <<>> ELSE b.payload[1]

gen_block_info(b, executed_state_id, v, next_epoch_state) ==
    [epoch |-> b.epoch,
     round |-> b.round,
     id |-> b.id,
     executed_state_id |-> executed_state_id,
     version |-> v,
     timestamp_usecs |-> b.timestamp_usecs,
     next_epoch_state |-> next_epoch_state]

root_hash(r) == r.root_hash

version(r) == r.version

epoch_state(r) == r.epoch_state

compute_status(r) == r.compute_status

reconfig_events(r) == r.reconfig_events

has_reconfiguration(r) == r.has_reconfiguration

extension_proof(r) == r.extension_proof

signature(r) == r.signature

VoteProposal_new(proof, b, next_epoch_state, decoupled_execution) ==
    [accumulator_extension_proof |-> proof,
     block |-> b,
     next_epoch_state |-> next_epoch_state,
     decoupled_execution |-> decoupled_execution]

\* zip_eq as std's zip, which stops at the shorter side
zip_truncating(a, b) ==
    LET n == IF Len(a) < Len(b) THEN Len(a) ELSE Len(b)
    IN  Ok([i \in 1..n |-> <<a[i], b[i]>>])

\* itertools::zip_eq consumed to the end: the pairs, or a panic when one
\* side ends before the other
zip_eq(a, b) ==
    IF Len(a) # Len(b) THEN Panic
    ELSE Ok([i \in 1..Len(a) |-> <<a[i], b[i]>>])

----------------------------------------------------------------------------
(* ExecutedBlock *)

new(b, r) == [block |-> b, state_compute_result |-> r]

Block(self) == self.block

id(self) == Block_id(Block(self))

compute_result(self) == self.state_compute_result

quorum_cert(self) == Block_quorum_cert(Block(self))

\* parent_id falling back to the default identifier
parent_id_or_default(self) ==
    IF quorum_cert(self).outcome = "panic" THEN Ok(ZeroId)
    ELSE Ok(certified_block(quorum_cert(self).value).id)

parent_id(self) ==
    IF quorum_cert(self).outcome = "panic" THEN Panic
    ELSE Ok(certified_block(quorum_cert(self).value).id)

\* block_info that leaves the next epoch state out
block_info_no_epoch_state(self) ==
    gen_block_info(Block(self),
                   root_hash(compute_result(self)),
                   version(compute_result(self)),
                   None)

block_info(self) ==
    gen_block_info(Block(self),
                   root_hash(compute_result(self)),
                   version(compute_result(self)),
                   epoch_state(compute_result(self)))

\* maybe_signed_vote_proposal that signs only when execution is coupled
maybe_signed_vote_proposal_unsigned_decoupled(self, decoupled_execution) ==
    [vote_proposal |->
         VoteProposal_new(extension_proof(compute_result(self)),
                          self.block,
                          epoch_state(compute_result(self)),
                          decoupled_execution),
     signature |-> IF decoupled_execution THEN None
                   ELSE signature(compute_result(self))]

maybe_signed_vote_proposal(self, decoupled_execution) ==
    [vote_proposal |->
         VoteProposal_new(extension_proof(compute_result(self)),
                          self.block,
                          epoch_state(compute_result(self)),
                          decoupled_execution),
     signature |-> signature(compute_result(self))]

\* is_reconfiguration_suffix looking at the payload instead of the statuses
is_reconfiguration_suffix_by_payload(self) ==
    /\ has_reconfiguration(self.state_compute_result)
    /\ transactions_to_execute(self.block) = <<>>

is_reconfiguration_suffix(self) ==
    /\ has_reconfiguration(self.state_compute_result)
    /\ compute_status(self.state_compute_result) = <<>>

\* the closure matching Keep(Executed) only
keep_only_executed(pair) ==
    IF pair[2] = KeepExecuted THEN Some(pair[1]) ELSE None

\* the closure of filter_map: Some(txn) for Keep(_), None for the rest
keep_only(pair) ==
    IF pair[2].tag = "Keep" THEN Some(pair[1]) ELSE None

RECURSIVE filter_map(_)
filter_map(pairs) ==
    IF pairs = <<>> THEN <<>>
    ELSE keep_only(Head(pairs)) \o filter_map(Tail(pairs))

\* transactions_to_commit without the early return
transactions_to_commit_always_zips(self) ==
    LET zipped == zip_eq(transactions_to_execute(self.block),
                         compute_status(self.state_compute_result))
    IN  IF zipped.outcome = "panic" THEN Panic
        ELSE Ok(filter_map(zipped.value))

transactions_to_commit(self) ==
    IF is_reconfiguration_suffix(self) THEN Ok(<<>>)
    ELSE LET zipped == zip_eq(transactions_to_execute(self.block),
                              compute_status(self.state_compute_result))
         IN  IF zipped.outcome = "panic" THEN Panic
             ELSE Ok(filter_map(zipped.value))

\* reconfig_event returning nothing on every block with a reconfiguration
reconfig_event_none_on_reconfiguration(self) ==
    IF has_reconfiguration(self.state_compute_result) THEN <<>>
    ELSE reconfig_events(self.state_compute_result)

\* reconfig_event without the early return
reconfig_event_always(self) ==
    reconfig_events(self.state_compute_result)

reconfig_event(self) ==
    IF is_reconfiguration_suffix(self) THEN <<>>
    ELSE reconfig_events(self.state_compute_result)

----------------------------------------------------------------------------
(* Calls by readers sharing one ExecutedBlock *)

Self == [block |-> block, state_compute_result |-> state_compute_result]

NoCall == [op |-> "none"]

Returned(r, op, arg, value) ==
    ret' = [ret EXCEPT ![r] = [op |-> op, arg |-> arg, value |-> value]]

Call_id(r) ==
    /\ Returned(r, "id", FALSE, id(Self))
    /\ UNCHANGED <<blockVars, chainVars>>

Call_parent_id(r) ==
    /\ Returned(r, "parent_id", FALSE, parent_id(Self))
    /\ UNCHANGED <<blockVars, chainVars>>

Call_block_info(r) ==
    /\ Returned(r, "block_info", FALSE, block_info(Self))
    /\ UNCHANGED <<blockVars, chainVars>>

Call_maybe_signed_vote_proposal(r, decoupled_execution) ==
    /\ Returned(r, "maybe_signed_vote_proposal", decoupled_execution,
                maybe_signed_vote_proposal(Self, decoupled_execution))
    /\ UNCHANGED <<blockVars, chainVars>>

\* transactions_to_commit taking the payload out of the block
Call_transactions_to_commit_taking(r) ==
    /\ Returned(r, "transactions_to_commit", FALSE, transactions_to_commit(Self))
    /\ block' = [block EXCEPT !.payload = None]
    /\ UNCHANGED <<state_compute_result, new_block, new_result, chainVars>>

Call_transactions_to_commit(r) ==
    /\ Returned(r, "transactions_to_commit", FALSE, transactions_to_commit(Self))
    /\ UNCHANGED <<blockVars, chainVars>>

Call_reconfig_event(r) ==
    /\ Returned(r, "reconfig_event", FALSE, reconfig_event(Self))
    /\ UNCHANGED <<blockVars, chainVars>>

Call_is_reconfiguration_suffix(r) ==
    /\ Returned(r, "is_reconfiguration_suffix", FALSE,
                is_reconfiguration_suffix(Self))
    /\ UNCHANGED <<blockVars, chainVars>>

Called(r, op) == ret[r].op = op

----------------------------------------------------------------------------
(* Specification of the commit filtering: every payload and compute_status *)
(* up to MaxTxns, every reconfig_events up to MaxEvents                    *)

CommitBlocks ==
    {b \in [id : {"b1"},
            epoch : {1, 2},
            round : {1, 3},
            timestamp_usecs : {10},
            payload : {None} \cup {Some(p) : p \in SeqsUpTo(Txns, MaxTxns)},
            quorum_cert : {Some([certified_block |-> [id |-> "b0"]])}] :
        b.round = 2 * b.epoch - 1}

CommitResults ==
    [root_hash : {"h1"},
     version : {1},
     compute_status : SeqsUpTo(TransactionStatus, MaxTxns),
     epoch_state : {None},
     reconfig_events : SeqsUpTo(Events, MaxEvents),
     has_reconfiguration : BOOLEAN,
     extension_proof : {"p1"},
     signature : {None}]

InitWith(Blocks, Results) ==
    \E b \in Blocks, r \in Results :
        /\ new_block = b
        /\ new_result = r
        /\ block = new(b, r).block
        /\ state_compute_result = new(b, r).state_compute_result
        /\ ret = [x \in Readers |-> NoCall]
        /\ chain = <<>>
        /\ committed = 0
        /\ emitted = <<>>

InitCommit == InitWith(CommitBlocks, CommitResults)

NextCommit ==
    \/ Call_transactions_to_commit("r1")
    \/ Call_reconfig_event("r1")
    \/ Call_is_reconfiguration_suffix("r1")

SpecCommit == InitCommit /\ [][NextCommit]_vars

----------------------------------------------------------------------------
(* Claims about the commit filtering, checked under SpecCommit *)

\* the transactions and statuses ExecutedBlock::new was given
GivenTxns == IF new_block.payload = None THEN <<>> ELSE new_block.payload[1]

GivenStatus == new_result.compute_status

GivenSuffix == new_result.has_reconfiguration /\ Len(GivenStatus) = 0

KeepIndices == {i \in 1..Len(GivenStatus) : GivenStatus[i].tag = "Keep"}

\* the k-th smallest index whose status is Keep
NthKeep(k) ==
    CHOOSE i \in KeepIndices : Cardinality({j \in KeepIndices : j <= i}) = k

\* C1: on a block that is not a reconfiguration suffix and whose transactions
\* and compute_status have the same length, transactions_to_commit() returns
\* as many transactions as there are Keep statuses, and its k-th transaction
\* is the one at the k-th index whose status is Keep: exactly the kept
\* transactions, in their original order, none of a Discard or Retry index.
C1_KeepFiltered ==
    \A r \in Readers :
        (/\ Called(r, "transactions_to_commit")
         /\ ~GivenSuffix
         /\ Len(GivenTxns) = Len(GivenStatus))
        => /\ ret[r].value.outcome = "ok"
           /\ Len(ret[r].value.value) = Cardinality(KeepIndices)
           /\ \A k \in 1..Cardinality(KeepIndices) :
                  ret[r].value.value[k] = GivenTxns[NthKeep(k)]

C1_Witness ==
    /\ Called("r1", "transactions_to_commit")
    /\ new_result.has_reconfiguration
    /\ GivenTxns = <<"tx1", "tx2", "tx2">>
    /\ GivenStatus = <<KeepExecuted, Discard, KeepOutOfGas>>
    /\ ret["r1"].value = Ok(<<"tx1", "tx2">>)

\* C2: on a block whose result has has_reconfiguration() true and an empty
\* compute_status, whatever its payload: is_reconfiguration_suffix() is true,
\* transactions_to_commit() returns the empty sequence and does not fail, and
\* reconfig_event() returns the empty sequence whatever reconfig_events holds.
C2_SuffixIsEmpty ==
    \A r \in Readers :
        (new_result.has_reconfiguration /\ new_result.compute_status = <<>>)
        => /\ Called(r, "is_reconfiguration_suffix") => ret[r].value = TRUE
           /\ Called(r, "transactions_to_commit") => ret[r].value = Ok(<<>>)
           /\ Called(r, "reconfig_event") => ret[r].value = <<>>

C2_Witness ==
    /\ new_result.has_reconfiguration
    /\ new_result.compute_status = <<>>
    /\ GivenTxns = <<"tx1", "tx2">>
    /\ new_result.reconfig_events = <<"e1", "e2">>
    /\ Called("r1", "transactions_to_commit")
    /\ ret["r1"].value = Ok(<<>>)

\* C3: on a block that is not a reconfiguration suffix and whose transactions
\* and compute_status differ in length, transactions_to_commit() fails: it
\* returns no list at all.
C3_MismatchFails ==
    \A r \in Readers :
        (/\ Called(r, "transactions_to_commit")
         /\ ~GivenSuffix
         /\ Len(GivenTxns) # Len(GivenStatus))
        => ret[r].value.outcome = "panic"

C3_Witness ==
    /\ Called("r1", "transactions_to_commit")
    /\ GivenTxns = <<"tx1", "tx2">>
    /\ GivenStatus = <<KeepExecuted>>
    /\ ret["r1"].value.outcome = "panic"

\* C5: is_reconfiguration_suffix() is true exactly when the result's
\* has_reconfiguration() is true and its compute_status is empty, whatever
\* the block's payload, round and epoch are.
C5_SuffixIff ==
    \A r \in Readers :
        Called(r, "is_reconfiguration_suffix")
        => (ret[r].value = TRUE
            <=> (new_result.has_reconfiguration
                 /\ Len(new_result.compute_status) = 0))

C5_Witness ==
    /\ Called("r1", "is_reconfiguration_suffix")
    /\ ret["r1"].value = TRUE
    /\ GivenTxns = <<"tx1">>
    /\ new_block.epoch = 2

\* C6: on a block that is not a reconfiguration suffix, reconfig_event()
\* returns the result's reconfig_events unchanged, also on the block that
\* triggers the reconfiguration and when no status is Keep.
C6_EventsVerbatim ==
    \A r \in Readers :
        (Called(r, "reconfig_event") /\ ~GivenSuffix)
        => ret[r].value = new_result.reconfig_events

C6_Witness ==
    /\ Called("r1", "reconfig_event")
    /\ new_result.has_reconfiguration
    /\ GivenStatus = <<Discard, Retry>>
    /\ new_result.reconfig_events = <<"e2", "e1">>
    /\ ret["r1"].value = <<"e2", "e1">>

----------------------------------------------------------------------------
(* Specification of the projections and derivations: two readers share one *)
(* ExecutedBlock and call its operations in any order                      *)

DeriveBlocks ==
    [id : {"b1", "b2"},
     epoch : {1, 2},
     round : {3, 4},
     timestamp_usecs : {10, 20},
     payload : {Some(<<"tx1">>)},
     quorum_cert : {None,
                    Some([certified_block |-> [id |-> "b0"]]),
                    Some([certified_block |-> [id |-> ZeroId]])}]

\* an epoch state is present only on a result with a reconfiguration
DeriveResults ==
    {r \in [root_hash : {"h1", "h2"},
            version : {7, 8},
            compute_status : {<<>>, <<KeepExecuted>>},
            epoch_state : {None, Some("es1")},
            reconfig_events : {<<"e1">>},
            has_reconfiguration : BOOLEAN,
            extension_proof : {"p1", "p2"},
            signature : {None, Some("sig1")}] :
        r.has_reconfiguration = (r.epoch_state # None)}

InitDerive == InitWith(DeriveBlocks, DeriveResults)

NextDerive ==
    \E r \in Readers :
        \/ Call_id(r)
        \/ Call_parent_id(r)
        \/ Call_block_info(r)
        \/ \E d \in BOOLEAN : Call_maybe_signed_vote_proposal(r, d)
        \/ Call_transactions_to_commit(r)
        \/ Call_reconfig_event(r)
        \/ Call_is_reconfiguration_suffix(r)

SpecDerive == InitDerive /\ [][NextDerive]_vars

----------------------------------------------------------------------------
(* Claims about the projections and derivations, checked under SpecDerive *)

C7_BlockInfo ==
    /\ \A r \in Readers :
           Called(r, "block_info")
           => /\ ret[r].value.epoch = new_block.epoch
              /\ ret[r].value.round = new_block.round
              /\ ret[r].value.id = new_block.id
              /\ ret[r].value.timestamp_usecs = new_block.timestamp_usecs
              /\ ret[r].value.executed_state_id = new_result.root_hash
              /\ ret[r].value.version = new_result.version
              /\ ret[r].value.next_epoch_state = new_result.epoch_state
              /\ DOMAIN ret[r].value =
                     {"epoch", "round", "id", "executed_state_id", "version",
                      "timestamp_usecs", "next_epoch_state"}
    /\ \A r1, r2 \in Readers :
           (Called(r1, "block_info") /\ Called(r2, "block_info"))
           => ret[r1].value = ret[r2].value

C7_Witness ==
    /\ Called("r1", "block_info")
    /\ Called("r2", "block_info")
    /\ new_result.epoch_state = Some("es1")
    /\ new_block.epoch = 2
    /\ ret["r1"].value.next_epoch_state = Some("es1")

\* C8: maybe_signed_vote_proposal(d) returns a proposal with the result's
\* extension proof, the wrapped block, the result's epoch state and the flag
\* d, and the result's signature, absent when the result has none; the
\* messages for d = TRUE and d = FALSE differ in the flag only.
C8_VoteProposal ==
    /\ \A r \in Readers :
           Called(r, "maybe_signed_vote_proposal")
           => /\ ret[r].value.vote_proposal.accumulator_extension_proof
                     = new_result.extension_proof
              /\ ret[r].value.vote_proposal.block = new_block
              /\ ret[r].value.vote_proposal.next_epoch_state
                     = new_result.epoch_state
              /\ ret[r].value.vote_proposal.decoupled_execution = ret[r].arg
              /\ ret[r].value.signature = new_result.signature
    /\ \A r1, r2 \in Readers :
           (/\ Called(r1, "maybe_signed_vote_proposal")
            /\ Called(r2, "maybe_signed_vote_proposal"))
           => [ret[r1].value EXCEPT !.vote_proposal.decoupled_execution = TRUE]
              = [ret[r2].value EXCEPT !.vote_proposal.decoupled_execution = TRUE]

C8_Witness ==
    /\ Called("r1", "maybe_signed_vote_proposal")
    /\ Called("r2", "maybe_signed_vote_proposal")
    /\ ret["r1"].arg = TRUE
    /\ ret["r2"].arg = FALSE
    /\ new_result.signature = None
    /\ ret["r1"].value.signature = None

\* C9: whatever calls the readers have made, in whatever order, the wrapped
\* block and the wrapped result are the values given to new(), and two
\* readers that made the same call hold the same answer.
C9_Immutable ==
    /\ block = new_block
    /\ state_compute_result = new_result
    /\ \A r1, r2 \in Readers :
           (ret[r1].op # "none" /\ ret[r1].op = ret[r2].op
                /\ ret[r1].arg = ret[r2].arg)
           => ret[r1].value = ret[r2].value

C9_Witness ==
    /\ Called("r1", "transactions_to_commit")
    /\ Called("r2", "transactions_to_commit")
    /\ ret["r1"].value = Ok(<<"tx1">>)
    /\ ret["r2"].value = Ok(<<"tx1">>)

----------------------------------------------------------------------------
(* Specification of a chain across a reconfiguration: the block that       *)
(* triggers it, then blocks that carry over its result with an empty       *)
(* compute_status; the commit walk passes the blocks in chain order        *)

TriggerBlocks ==
    [id : {"b1"},
     epoch : {1},
     round : {1},
     timestamp_usecs : {10},
     payload : {Some(<<"tx1">>), Some(<<"tx1", "tx2">>)},
     quorum_cert : {Some([certified_block |-> [id |-> "b0"]])}]

TriggerResults ==
    [root_hash : {"h1"},
     version : {7},
     compute_status : {<<KeepExecuted>>, <<Discard>>,
                       <<KeepExecuted, KeepOutOfGas>>, <<Retry, KeepExecuted>>},
     epoch_state : {Some("es1")},
     reconfig_events : SeqsUpTo(Events, MaxEvents),
     has_reconfiguration : {TRUE},
     extension_proof : {"p1"},
     signature : {None}]

SuffixPayloads == {None, Some(<<>>), Some(<<"tx2">>)}

\* the result of a block executed after a reconfiguration: its parent's,
\* with no transaction status
carried_over(r) == [r EXCEPT !.compute_status = <<>>]

Last(c) == c[Len(c)]

InitChain ==
    \E b \in TriggerBlocks, r \in TriggerResults :
        /\ Len(transactions_to_execute(b)) = Len(r.compute_status)
        /\ new_block = b
        /\ new_result = r
        /\ block = new(b, r).block
        /\ state_compute_result = new(b, r).state_compute_result
        /\ ret = [x \in Readers |-> NoCall]
        /\ chain = <<new(b, r)>>
        /\ committed = 0
        /\ emitted = <<>>

\* a child of the last block is executed and inserted
Extend ==
    /\ Len(chain) < 1 + MaxSuffix
    /\ \E p \in SuffixPayloads :
           chain' = Append(chain,
               new([id |-> "b1",
                    epoch |-> Last(chain).block.epoch,
                    round |-> Last(chain).block.round + 1,
                    timestamp_usecs |-> Last(chain).block.timestamp_usecs,
                    payload |-> p,
                    quorum_cert |->
                        Some([certified_block |-> [id |-> Last(chain).block.id]])],
                   carried_over(Last(chain).state_compute_result)))
    /\ UNCHANGED <<blockVars, ret, committed, emitted>>

\* the commit walk passes the next block of the chain
CommitNext ==
    /\ committed < Len(chain)
    /\ committed' = committed + 1
    /\ emitted' = Append(emitted,
           [txns |-> transactions_to_commit(chain[committed + 1]),
            events |-> reconfig_event(chain[committed + 1])])
    /\ UNCHANGED <<blockVars, ret, chain>>

NextChain == Extend \/ CommitNext

SpecChain == InitChain /\ [][NextChain]_vars

----------------------------------------------------------------------------
(* Claim about the chain, checked under SpecChain *)

RECURSIVE AllEvents(_)
AllEvents(log) ==
    IF log = <<>> THEN <<>> ELSE Head(log).events \o AllEvents(Tail(log))

\* C10: along a chain of the reconfiguration-triggering block and blocks
\* carrying over its result with an empty compute_status, committed in chain
\* order, reconfig_event() returns the reconfiguration events on the
\* triggering block and the empty sequence on every later block, and
\* transactions_to_commit() returns the empty sequence on every later
\* block: all that was emitted is the events of the triggering block, once.
C10_EventsOnce ==
    /\ \A i \in 1..committed :
           IF i = 1
           THEN emitted[i].events = new_result.reconfig_events
           ELSE /\ emitted[i].events = <<>>
                /\ emitted[i].txns = Ok(<<>>)
    /\ committed >= 1 => AllEvents(emitted) = new_result.reconfig_events

C10_Witness ==
    /\ committed = 3
    /\ chain[3].block.payload = Some(<<"tx2">>)
    /\ chain[3].state_compute_result.reconfig_events = <<"e1", "e2">>
    /\ AllEvents(emitted) = <<"e1", "e2">>

====
